---- MODULE Spec2Model ----
(***************************************************************************)
(* Streaming tracer SDK (experimental/streaming/sdk/trace.go) and the      *)
(* reader observer (experimental/streaming/exporter/reader/reader.go).     *)
(*                                                                         *)
(* The tracer turns Start / WithResources / WithSpan calls into events,    *)
(* observer.Record gives each event a sequence number and hands it to the  *)
(* reader observer, which keeps the scope, measure and metric tables and   *)
(* delivers one reader.Event per non-silent event to the readers.          *)
(*                                                                         *)
(* Two specifications share the state:                                     *)
(*   Spec     the tracer drives the observer (trace.go over reader.go);    *)
(*   SpecObs  events are recorded directly (any caller of Observe).        *)
(***************************************************************************)
EXTENDS Integers, Sequences, FiniteSets, TLC

\* ------------------------------------------------------------------ bounds
MaxEvents == 6
MaxObsEvents == 4
MaxTracers == 2
NumReaders == 2
MaxRand == 1
MaxTime == 2
Now == 1
NumWriters == 2
MaxApply == 3
MaxLoads == 2
NumThreads == 2
MaxConcEvents == 6

\* --------------------------------------------------------------- tag maps
\* tag.Map: an immutable map from keys to values.  A nil tag.Map (the zero
\* value of reader.Event.ParentAttributes) is modelled as the empty map.
EmptyMap == << >>

MapSet(m, k, v) == [x \in (DOMAIN m) \cup {k} |-> IF x = k THEN v ELSE m[x]]

MapDel(m, k) == [x \in (DOMAIN m) \ {k} |-> m[x]]

\* core.KeyValue; the zero KeyValue has an undefined key.
KV(k, v) == [Key |-> k, Value |-> v]

NoKV == KV("", "")

\* tag.Mutator: an operation with a KeyValue.
Mut(op, k, v) == [Op |-> op, Key |-> k, Value |-> v]

NoMut == Mut("UPSERT", "", "")

\* tag.MapUpdate
MapUpdate(single, multi, smut, mmut) ==
  [SingleKV |-> single, MultiKV |-> multi, SingleMutator |-> smut, MultiMutator |-> mmut]

RECURSIVE ApplyKVs(_, _)
ApplyKVs(m, kvs) ==
  IF kvs = << >> THEN m
  ELSE ApplyKVs(MapSet(m, Head(kvs).Key, Head(kvs).Value), Tail(kvs))

ApplyMutator(m, mu) ==
  CASE mu.Op = "INSERT" -> IF mu.Key \in DOMAIN m THEN m ELSE MapSet(m, mu.Key, mu.Value)
    [] mu.Op = "UPDATE" -> IF mu.Key \in DOMAIN m THEN MapSet(m, mu.Key, mu.Value) ELSE m
    [] mu.Op = "UPSERT" -> MapSet(m, mu.Key, mu.Value)
    [] mu.Op = "DELETE" -> MapDel(m, mu.Key)

RECURSIVE ApplyMutators(_, _)
ApplyMutators(m, mus) ==
  IF mus = << >> THEN m
  ELSE ApplyMutators(ApplyMutator(m, Head(mus)), Tail(mus))

\* tag.Map.Apply: a new map; the receiver is not changed.
Apply(m, u) ==
  LET m1 == IF u.SingleKV.Key # "" THEN MapSet(m, u.SingleKV.Key, u.SingleKV.Value) ELSE m
      m2 == ApplyKVs(m1, u.MultiKV)
      m3 == IF u.SingleMutator.Key # "" THEN ApplyMutator(m2, u.SingleMutator) ELSE m2
  IN  ApplyMutators(m3, u.MultiMutator)

\* ------------------------------------------------- span contexts, scope ids
\* core.SpanContext.  TraceID stands for the 128-bit pair (High, Low) as one
\* number; 0 is the pair of two zero halves.
SC(t, s) == [TraceID |-> t, SpanID |-> s]

EmptySC == SC(0, 0)

HasTraceID(sc) == sc.TraceID # 0

\* observer.ScopeID
ScopeID(id, sc) == [EventID |-> id, SpanContext |-> sc]

NoScope == ScopeID(0, EmptySC)

\* context.Context as far as the SDK reads it: the current span (its handle,
\* 0 for none), that span's context, and the tag map.  NilCtx is a nil Context.
Ctx(h, sc, tags) == [nil |-> FALSE, span |-> h, sc |-> sc, tags |-> tags]

NilCtx == [nil |-> TRUE, span |-> 0, sc |-> EmptySC, tags |-> EmptyMap]

\* tag.FromContext
FromContext(ctx) == ctx.tags

\* codes.OK, the zero value of codes.Code
CodeOK == 0

\* ------------------------------------------------------------------ events
\* observer.Event, zero-valued except for its type.
Ev(type) ==
  [Type |-> type, Time |-> 0, Sequence |-> 0, Scope |-> NoScope, Parent |-> NoScope,
   Context |-> NilCtx, String |-> "", Status |-> CodeOK,
   Attribute |-> NoKV, Attributes |-> << >>, Mutator |-> NoMut, Mutators |-> << >>,
   Stat |-> [Measure |-> 0, Value |-> 0], Stats |-> << >>]

\* reader.Event as orderedObserve initialises it.
ReadInit(event) ==
  [Type |-> "INVALID", Time |-> event.Time, Sequence |-> event.Sequence,
   SpanContext |-> EmptySC,
   Tags |-> IF event.Context.nil THEN EmptyMap ELSE FromContext(event.Context),
   Attributes |-> EmptyMap, Stats |-> << >>,
   Parent |-> EmptySC, ParentAttributes |-> EmptyMap,
   Duration |-> 0, Name |-> "", Message |-> "", Status |-> CodeOK]

VARIABLES
  nextID,    \* observer: the last event id handed out by NextEventID
  emitted,   \* the event stream: every event passed to Observe, in order
  scopes,    \* readerObserver.scopes: EventID -> span or scope node
  spans,     \* the readerSpan objects, by the id of their START_SPAN event
  measures,  \* readerObserver.measures
  metrics,   \* readerObserver.metrics
  log,       \* the calls reader.Read(record), in order
  fatal,     \* a panic has unwound the process
  tracers,   \* the tracers made so far, each by its resources EventID
  handles,   \* the spans handed to callers: handle -> span struct and state
  wspan,     \* the span of the WithSpan call whose body is running (0: none)
  wresult,   \* what the last WithSpan call returned ("" for nil)
  config,        \* sdk/trace: the *Config held by the atomic value config
  cfgHeap,       \* the Config objects, by address
  configWriteMu, \* the goroutine holding configWriteMu (0: unlocked)
  wpc,           \* where each goroutine calling ApplyConfig stands
  warg,          \* its argument cfg
  wc,            \* the address of its local c
  applied,       \* the ApplyConfig calls that have published, in order
  rptr,          \* the pointer a consumer got from config.Load() (0: none)
  loaded,        \* the Config values consumers have read
  tpc,           \* goroutines using the tracer concurrently: where each stands
  tev,           \* the event each is recording
  tloc,          \* what its handler has read from the tables so far
  top            \* the operation it is in: kind, span handle, tracer

obsvars == <<nextID, emitted, scopes, spans, measures, metrics, log, fatal,
             tracers, handles, wspan, wresult>>

cfgvars == <<config, cfgHeap, configWriteMu, wpc, warg, wc, applied, rptr, loaded>>

concvars == <<tpc, tev, tloc, top>>

vars == <<obsvars, cfgvars, concvars>>

\* The observer and sequencer state as one value, so that a handler can be
\* applied to the state another handler left.
Cur ==
  [nextID |-> nextID, emitted |-> emitted, scopes |-> scopes,
   spans |-> spans, measures |-> measures, metrics |-> metrics, log |-> log,
   fatal |-> fatal]

Becomes(S) ==
  /\ nextID' = S.nextID
  /\ emitted' = S.emitted
  /\ scopes' = S.scopes
  /\ spans' = S.spans
  /\ measures' = S.measures
  /\ metrics' = S.metrics
  /\ log' = S.log
  /\ fatal' = S.fatal

\* sync.Map.Store and sync.Map.Delete on a table
Store(table, id, v) == [x \in (DOMAIN table) \cup {id} |-> IF x = id THEN v ELSE table[x]]

Delete(table, id) == [x \in (DOMAIN table) \ {id} |-> table[x]]

\* panic(...): the handler stops where it is; nothing after it runs.
Panic(S) == [S EXCEPT !.fatal = TRUE]

\* ------------------------------------------------------- reader observer
Readers == 1..NumReaders

\* for _, reader := range ro.readers { reader.Read(read) }
Deliver(S, read) ==
  [S EXCEPT !.log = @ \o [r \in Readers |-> [reader |-> r, rec |-> read]]]

\* faulty variant: an identifier that is not in the table reads as the empty scope
readScopeLenient(S, id) ==
  IF id.EventID = 0 \/ id.EventID \notin DOMAIN S.scopes
  THEN [has |-> TRUE, attributes |-> EmptyMap, span |-> 0]
  ELSE [has |-> TRUE, attributes |-> S.scopes[id.EventID].attributes,
        span |-> S.scopes[id.EventID].span]

\* readScope: (has, attributes, span); has = FALSE is the panic "scope not
\* found".  span is the id of the readerSpan object, 0 for nil.
readScope(S, id) ==
  IF id.EventID = 0 THEN [has |-> TRUE, attributes |-> EmptyMap, span |-> 0]
  ELSE IF id.EventID \notin DOMAIN S.scopes
       THEN [has |-> FALSE, attributes |-> EmptyMap, span |-> 0]
       ELSE [has |-> TRUE, attributes |-> S.scopes[id.EventID].attributes,
             span |-> S.scopes[id.EventID].span]

\* cleanupSpan: walk the parent pointers from id to 0, deleting each node.
RECURSIVE cleanupSpan(_, _)
cleanupSpan(S, id) ==
  IF id = 0 THEN S
  ELSE IF id \notin DOMAIN S.scopes THEN Panic(S)
       ELSE cleanupSpan([S EXCEPT !.scopes = Delete(@, id)], S.scopes[id].parent)

\* faulty variant: the span node is linked to the scope it was started in
startSpanNodeLinked(event, rattrs) ==
  [kind |-> "span", span |-> event.Sequence, parent |-> event.Scope.EventID,
   attributes |-> rattrs]

\* case observer.START_SPAN
\* The stored span embeds a fresh readerScope whose parent field is never
\* assigned, so it is 0.
startSpanNode(event, rattrs) ==
  [kind |-> "span", span |-> event.Sequence, parent |-> 0, attributes |-> rattrs]

startSpanParent(S, event, read) ==
  IF event.Parent.EventID = 0 /\ HasTraceID(event.Parent.SpanContext)
  THEN [has |-> TRUE, read |-> [read EXCEPT !.Parent = event.Parent.SpanContext]]
  ELSE LET p == readScope(S, event.Parent)
       IN  IF ~p.has THEN [has |-> FALSE, read |-> read]
           ELSE IF p.span # 0
                THEN [has |-> TRUE,
                      read |-> [read EXCEPT !.Parent = S.spans[p.span].spanContext,
                                            !.ParentAttributes = p.attributes]]
                ELSE [has |-> TRUE, read |-> read]

\* the readerSpan object of a START_SPAN event
startSpan(event) ==
  [name |-> event.String, start |-> event.Time,
   startTags |-> FromContext(event.Context),
   spanContext |-> event.Scope.SpanContext, status |-> CodeOK]

\* lines 145-168: the two readScope calls and the record they fill
\* (has = FALSE: one of them panicked)
startSpanLookup(S, event) ==
  LET span == startSpan(event)
      r == readScope(S, event.Scope)
      read1 == [ReadInit(event) EXCEPT !.Name = span.name, !.Type = "START_SPAN",
                                       !.SpanContext = span.spanContext,
                                       !.Attributes = r.attributes]
      par == startSpanParent(S, event, read1)
  IN  [has |-> r.has /\ par.has, attributes |-> r.attributes, read |-> par.read]

\* line 170 and the delivery: ro.scopes.Store(event.Sequence, span)
startSpanStore(S, event, l) ==
  Deliver([S EXCEPT !.scopes = Store(@, event.Sequence,
                                      startSpanNode(event, l.attributes)),
                    !.spans = Store(@, event.Sequence, startSpan(event))],
          l.read)

observeStartSpan(S, event) ==
  LET l == startSpanLookup(S, event)
  IN  IF ~l.has THEN Panic(S) ELSE startSpanStore(S, event, l)

\* faulty variant: Tags left as the finishing event's tags
finishReadEventTags(S, event, r) ==
  [ReadInit(event) EXCEPT !.Name = S.spans[r.span].name, !.Type = "FINISH_SPAN",
                          !.Attributes = r.attributes,
                          !.Duration = event.Time - S.spans[r.span].start,
                          !.SpanContext = S.spans[r.span].spanContext]

\* case observer.FINISH_SPAN, with the cleanup that follows the delivery
finishRead(S, event, r) ==
  [ReadInit(event) EXCEPT !.Name = S.spans[r.span].name, !.Type = "FINISH_SPAN",
                          !.Attributes = r.attributes,
                          !.Duration = event.Time - S.spans[r.span].start,
                          !.Tags = S.spans[r.span].startTags,
                          !.SpanContext = S.spans[r.span].spanContext]

\* faulty variant: the cleanup runs before the readers get the record
observeFinishSpanCleanupFirst(S, event) ==
  LET r == readScope(S, event.Scope)
      S1 == cleanupSpan(S, event.Scope.EventID)
  IN  IF ~r.has \/ r.span = 0 THEN Panic(S)
      ELSE IF S1.fatal THEN S1 ELSE Deliver(S1, finishRead(S, event, r))

observeFinishSpan(S, event) ==
  LET r == readScope(S, event.Scope)
  IN  IF ~r.has \/ r.span = 0 THEN Panic(S)
      ELSE cleanupSpan(Deliver(S, finishRead(S, event, r)), event.Scope.EventID)

\* case observer.NEW_SCOPE, observer.MODIFY_ATTR
scopeUpdate(event) ==
  MapUpdate(event.Attribute, event.Attributes, event.Mutator, event.Mutators)

\* faulty variant: the owning span is taken from a span parent only
scopeNodeDirectOnly(S, event) ==
  LET sid == event.Scope
  IN  [kind |-> "scope",
       span |-> IF sid.EventID # 0 /\ S.scopes[sid.EventID].kind = "span"
                THEN S.scopes[sid.EventID].span ELSE 0,
       parent |-> sid.EventID,
       attributes |-> Apply(IF sid.EventID = 0 THEN EmptyMap
                            ELSE S.scopes[sid.EventID].attributes,
                            scopeUpdate(event))]

scopeNode(S, event) ==
  LET sid == event.Scope
  IN  [kind |-> "scope",
       span |-> IF sid.EventID = 0 THEN 0 ELSE S.scopes[sid.EventID].span,
       parent |-> sid.EventID,
       attributes |-> Apply(IF sid.EventID = 0 THEN EmptyMap
                            ELSE S.scopes[sid.EventID].attributes,
                            scopeUpdate(event))]

\* faulty variant: the node is stored under the referenced id
scopeStoreAtParent(S, event, sc) ==
  [S EXCEPT !.scopes = Store(@, IF event.Scope.EventID # 0 THEN event.Scope.EventID
                                ELSE event.Sequence, sc)]

scopeStore(S, event, sc) == [S EXCEPT !.scopes = Store(@, event.Sequence, sc)]

\* lines 194-200: the parent lookup fails
scopeParentMissing(S, event) ==
  event.Scope.EventID # 0 /\ event.Scope.EventID \notin DOMAIN S.scopes

\* lines 229-235: the MODIFY_ATTR record
scopeRead(S, event, sc) ==
  LET read0 == [ReadInit(event) EXCEPT !.Type = "MODIFY_ATTR",
                                       !.Attributes = sc.attributes]
  IN  IF sc.span # 0
      THEN [read0 EXCEPT !.SpanContext = S.spans[sc.span].spanContext,
                         !.Tags = S.spans[sc.span].startTags]
      ELSE read0

\* lines 223-235: store the node; MODIFY_ATTR also gives a record
scopeStoreDeliver(S, event, sc) ==
  LET S1 == scopeStore(S, event, sc)
  IN  IF event.Type = "NEW_SCOPE" THEN S1 ELSE Deliver(S1, scopeRead(S, event, sc))

observeScope(S, event) ==
  IF scopeParentMissing(S, event) THEN Panic(S)
  ELSE scopeStoreDeliver(S, event, scopeNode(S, event))

\* case observer.NEW_MEASURE
observeNewMeasure(S, event) ==
  [S EXCEPT !.measures = Store(@, event.Sequence, [name |-> event.String])]

\* faulty variant: the metric is stored without looking its measure up
observeNewMetricUnchecked(S, event) ==
  [S EXCEPT !.metrics = Store(@, event.Sequence, [readerMeasure |-> event.Scope.EventID])]

\* case observer.NEW_METRIC: the metric points at the measure object, named
\* here by the id it was registered under.
observeNewMetric(S, event) ==
  IF event.Scope.EventID \notin DOMAIN S.measures THEN Panic(S)
  ELSE [S EXCEPT !.metrics = Store(@, event.Sequence,
                                      [readerMeasure |-> event.Scope.EventID])]

\* faulty variant: the event's attributes are written back to the scope node
observeAddEventPersist(S, event) ==
  LET r == readScope(S, event.Scope)
      attrs == Apply(r.attributes, MapUpdate(NoKV, event.Attributes, NoMut, << >>))
      read0 == [ReadInit(event) EXCEPT
                  !.Type = "ADD_EVENT", !.Message = event.String, !.Attributes = attrs]
  IN  IF ~r.has THEN Panic(S)
      ELSE IF event.Scope.EventID = 0 THEN Deliver(S, read0)
           ELSE Deliver([S EXCEPT !.scopes[event.Scope.EventID].attributes = attrs],
                        IF r.span # 0
                        THEN [read0 EXCEPT !.SpanContext = S.spans[r.span].spanContext]
                        ELSE read0)

\* case observer.ADD_EVENT
observeAddEvent(S, event) ==
  LET r == readScope(S, event.Scope)
      read0 == [ReadInit(event) EXCEPT
                  !.Type = "ADD_EVENT", !.Message = event.String,
                  !.Attributes = Apply(r.attributes,
                                       MapUpdate(NoKV, event.Attributes, NoMut, << >>))]
  IN  IF ~r.has THEN Panic(S)
      ELSE Deliver(S, IF r.span # 0
                      THEN [read0 EXCEPT !.SpanContext = S.spans[r.span].spanContext]
                      ELSE read0)

\* addMeasurement with readMeasureScope, which returns (nil, nil)
addMeasurement(stats, m) ==
  Append(stats, [Measure |-> m.Measure, Value |-> m.Value, Tags |-> EmptyMap])

RECURSIVE addMeasurements(_, _)
addMeasurements(stats, ms) ==
  IF ms = << >> THEN stats
  ELSE addMeasurements(addMeasurement(stats, Head(ms)), Tail(ms))

\* case observer.RECORD_STATS
observeRecordStats(S, event) ==
  LET r == readScope(S, event.Scope)
      st1 == addMeasurements(<< >>, event.Stats)
      st2 == IF event.Stat.Measure # 0 THEN addMeasurement(st1, event.Stat) ELSE st1
      read0 == [ReadInit(event) EXCEPT !.Type = "RECORD_STATS", !.Stats = st2]
  IN  IF ~r.has THEN Panic(S)
      ELSE Deliver(S, IF r.span # 0
                      THEN [read0 EXCEPT !.SpanContext = S.spans[r.span].spanContext]
                      ELSE read0)

\* faulty variant: a status once set is kept
observeSetStatusKeepFirst(S, event) ==
  LET r == readScope(S, event.Scope)
      read0 == [ReadInit(event) EXCEPT !.Type = "SET_STATUS", !.Status = event.Status]
  IN  IF ~r.has THEN Panic(S)
      ELSE IF r.span # 0
           THEN Deliver([S EXCEPT !.spans[r.span].status =
                                     IF @ = CodeOK THEN event.Status ELSE @],
                        [read0 EXCEPT !.SpanContext = S.spans[r.span].spanContext])
           ELSE Deliver(S, read0)

\* case observer.SET_STATUS
observeSetStatus(S, event) ==
  LET r == readScope(S, event.Scope)
      read0 == [ReadInit(event) EXCEPT !.Type = "SET_STATUS", !.Status = event.Status]
  IN  IF ~r.has THEN Panic(S)
      ELSE IF r.span # 0
           THEN Deliver([S EXCEPT !.spans[r.span].status = event.Status],
                        [read0 EXCEPT !.SpanContext = S.spans[r.span].spanContext])
           ELSE Deliver(S, read0)

\* orderedObserve: the switch on event.Type; default panics.
orderedObserve(S, event) ==
  CASE event.Type = "START_SPAN" -> observeStartSpan(S, event)
    [] event.Type = "FINISH_SPAN" -> observeFinishSpan(S, event)
    [] event.Type \in {"NEW_SCOPE", "MODIFY_ATTR"} -> observeScope(S, event)
    [] event.Type = "NEW_MEASURE" -> observeNewMeasure(S, event)
    [] event.Type = "NEW_METRIC" -> observeNewMetric(S, event)
    [] event.Type = "ADD_EVENT" -> observeAddEvent(S, event)
    [] event.Type = "RECORD_STATS" -> observeRecordStats(S, event)
    [] event.Type = "SET_STATUS" -> observeSetStatus(S, event)
    [] OTHER -> Panic(S)

\* Observe
Observe(S, event) == orderedObserve(S, event)

\* ---------------------------------------------------------------- observer
\* observer.Record: give the event the next sequence number and, when it has
\* no time, the current time (time.Now() reads Now); pass it to the registered observer; return the
\* sequence number (the nextID of the result).  After a panic nothing runs.
Stamped(S, event) ==
  [event EXCEPT !.Sequence = S.nextID + 1,
                !.Time = IF event.Time = 0 THEN Now ELSE event.Time]

\* the event has its sequence number; the observer has not seen it yet
Emit(S, event) == [S EXCEPT !.nextID = @ + 1, !.emitted = Append(@, Stamped(S, event))]

Record(S, event) ==
  IF S.fatal THEN S
  ELSE Observe(Emit(S, event), Stamped(S, event))

\* observer.NewScope: record NEW_SCOPE off the parent scope; the new ScopeID
\* keeps the parent's span context.
newScopeEvent(parent, attributes) ==
  [Ev("NEW_SCOPE") EXCEPT !.Scope = parent, !.Attributes = attributes]

NewScope(S, parent, attributes) == Record(S, newScopeEvent(parent, attributes))


\* ------------------------------------------------ recording events directly
\* The inputs of SpecObs: what a caller of observer.Record may put in an event.
BgCtx == Ctx(0, EmptySC, EmptyMap)

TagCtx == Ctx(0, EmptySC, [env |-> "prod"])

\* (time, context) an event is recorded with
Stamps == {[Time |-> 1, Context |-> BgCtx], [Time |-> MaxTime, Context |-> TagCtx]}

LateStamp == [Time |-> MaxTime, Context |-> TagCtx]

RemoteSC == SC(3, 3)

\* what a span is started with: its stamp and its span context
StartInputs ==
  {[stamp |-> [Time |-> 1, Context |-> BgCtx], sc |-> SC(1, 1)],
   [stamp |-> LateStamp, sc |-> SC(1, 2)]}

\* attribute deltas of NEW_SCOPE and MODIFY_ATTR events
ObsUpdates ==
  {MapUpdate(KV("x", "1"), << >>, NoMut, << >>),
   MapUpdate(NoKV, <<KV("y", "2")>>, NoMut, << >>),
   MapUpdate(NoKV, << >>, Mut("DELETE", "x", ""), <<Mut("INSERT", "y", "1")>>)}

\* The ids a scope reference may name: 0, and the id of every event recorded
\* so far that stored a node (present or since deleted) or a measure.
NodeTypes == {"START_SPAN", "NEW_SCOPE", "MODIFY_ATTR", "NEW_MEASURE"}

Refs == {0} \cup {emitted[i].Sequence : i \in {j \in DOMAIN emitted : emitted[j].Type \in NodeTypes}}

ObsEnabled == ~fatal /\ nextID < MaxObsEvents

ProducerUnchanged == UNCHANGED <<tracers, handles, wspan, wresult, cfgvars, concvars>>

WithStamp(event, st) == [event EXCEPT !.Time = st.Time, !.Context = st.Context]

WithUpdate(event, u) ==
  [event EXCEPT !.Attribute = u.SingleKV, !.Attributes = u.MultiKV,
                !.Mutator = u.SingleMutator, !.Mutators = u.MultiMutator]

RecordStartSpan ==
  /\ ObsEnabled
  /\ \E in \in StartInputs, r \in Refs,
        par \in {NoScope, ScopeID(0, RemoteSC)} \cup {ScopeID(p, EmptySC) : p \in DOMAIN scopes} :
       Becomes(Record(Cur, [WithStamp(Ev("START_SPAN"), in.stamp) EXCEPT
                              !.Scope = ScopeID(r, in.sc), !.Parent = par, !.String = "op"]))
  /\ ProducerUnchanged

RecordFinishSpan ==
  /\ ObsEnabled
  /\ \E st \in Stamps, r \in Refs :
       Becomes(Record(Cur, [WithStamp(Ev("FINISH_SPAN"), st) EXCEPT
                              !.Scope = ScopeID(r, EmptySC)]))
  /\ ProducerUnchanged

RecordNewScope ==
  /\ ObsEnabled
  /\ \E r \in Refs, u \in ObsUpdates :
       Becomes(Record(Cur, [WithUpdate(Ev("NEW_SCOPE"), u) EXCEPT
                              !.Time = 1, !.Scope = ScopeID(r, EmptySC)]))
  /\ ProducerUnchanged

RecordModifyAttr ==
  /\ ObsEnabled
  /\ \E r \in Refs, u \in ObsUpdates :
       Becomes(Record(Cur, [WithUpdate(WithStamp(Ev("MODIFY_ATTR"), LateStamp), u) EXCEPT
                              !.Scope = ScopeID(r, EmptySC)]))
  /\ ProducerUnchanged

RecordAddEvent ==
  /\ ObsEnabled
  /\ \E r \in Refs :
       Becomes(Record(Cur, [WithStamp(Ev("ADD_EVENT"), LateStamp) EXCEPT
                              !.Scope = ScopeID(r, EmptySC), !.String = "msg",
                              !.Attributes = <<KV("y", "9")>>]))
  /\ ProducerUnchanged

\* a NEW_MEASURE event may carry any scope reference: its handler reads none
RecordNewMeasure ==
  /\ ObsEnabled
  /\ \E r \in {0, MaxObsEvents + 1} :
       Becomes(Record(Cur, [Ev("NEW_MEASURE") EXCEPT !.Time = 1, !.String = "latency",
                                                     !.Scope = ScopeID(r, EmptySC)]))
  /\ ProducerUnchanged

RecordNewMetric ==
  /\ ObsEnabled
  /\ \E r \in Refs :
       Becomes(Record(Cur, [Ev("NEW_METRIC") EXCEPT !.Time = 1,
                                                    !.Scope = ScopeID(r, EmptySC)]))
  /\ ProducerUnchanged

RecordStats ==
  /\ ObsEnabled
  /\ \E r \in Refs :
       Becomes(Record(Cur, [WithStamp(Ev("RECORD_STATS"), LateStamp) EXCEPT
                              !.Scope = ScopeID(r, EmptySC),
                              !.Stats = <<[Measure |-> 1, Value |-> 5]>>,
                              !.Stat = [Measure |-> 2, Value |-> 7]]))
  /\ ProducerUnchanged

RecordSetStatus ==
  /\ ObsEnabled
  /\ \E r \in Refs, code \in {1, 2} :
       Becomes(Record(Cur, [WithStamp(Ev("SET_STATUS"), LateStamp) EXCEPT
                              !.Scope = ScopeID(r, EmptySC), !.Status = code]))
  /\ ProducerUnchanged

RecordInvalid ==
  /\ ObsEnabled
  /\ Becomes(Record(Cur, [Ev("INVALID") EXCEPT !.Time = 1]))
  /\ ProducerUnchanged

\* ------------------------------------------------------------------ tracer
\* The keys of trace.go
ServiceKey == "service"

ComponentKey == "component"

ErrorKey == "error"

MessageKey == "message"

\* apitrace.SpanOptions as Start reads them
SpanOptions(ref, attrs) == [Reference |-> ref, Attributes |-> attrs, StartTime |-> 0]

NoOptions == SpanOptions(EmptySC, << >>)

\* rand.Uint64()
RandVals == 0..MaxRand

\* apitrace.CurrentSpan(ctx).SpanContext(): the empty context when ctx has no span
CurrentSpanContext(ctx) == ctx.sc

\* trace.SetCurrentSpan(ctx, span)
SetCurrentSpan(ctx, h, sc) == [ctx EXCEPT !.span = h, !.sc = sc]

\* faulty variant: the new scope is not chained off the receiver's resources
WithResourcesUnchained(S, t, attributes) == NewScope(S, NoScope, attributes)

\* tracer.WithResources: one NEW_SCOPE off the receiver's resources; the new
\* tracer remembers the new scope's id (the nextID of the result).
WithResources(S, t, attributes) == NewScope(S, ScopeID(t, EmptySC), attributes)

WithComponent(S, t, name) == WithResources(S, t, <<KV(ComponentKey, name)>>)

WithService(S, t, name) == WithResources(S, t, <<KV(ServiceKey, name)>>)

\* faulty variant: the context's current span is preferred to the reference
startParentScopeCurrentFirst(ctx, o) ==
  IF HasTraceID(CurrentSpanContext(ctx)) THEN ScopeID(0, CurrentSpanContext(ctx))
  ELSE ScopeID(0, o.Reference)

\* tracer.Start, lines 91-97: the parent scope carries a span context only
startParentScope(ctx, o) ==
  IF HasTraceID(o.Reference) THEN ScopeID(0, o.Reference)
  ELSE ScopeID(0, CurrentSpanContext(ctx))

\* tracer.Start, lines 81-106: the child's span context
startChild(parentScope, randSpan, randTrace) ==
  IF HasTraceID(parentScope.SpanContext)
  THEN SC(parentScope.SpanContext.TraceID, randSpan)
  ELSE SC(randTrace, randSpan)

\* tracer.Start, lines 108-127: NEW_SCOPE for the initial attributes off the
\* tracer's resources, then START_SPAN in that scope.
startSpanEvent(scope, ctx, name, o, parentScope) ==
  [Ev("START_SPAN") EXCEPT !.Time = o.StartTime, !.Scope = scope,
                           !.Context = ctx, !.Parent = parentScope, !.String = name]

startRecord(S, t, ctx, name, o, parentScope, child) ==
  LET S1 == NewScope(S, ScopeID(t, child), o.Attributes)
  IN  Record(S1, startSpanEvent(ScopeID(S1.nextID, child), ctx, name, o, parentScope))

\* tracer.Start: the state after it; the span's initial ScopeID is
\* (nextID of the result, child).
Start(S, t, ctx, name, o, randSpan, randTrace) ==
  LET parentScope == startParentScope(ctx, o)
  IN  startRecord(S, t, ctx, name, o, parentScope,
                  startChild(parentScope, randSpan, randTrace))

StartChild(ctx, o, randSpan, randTrace) ==
  startChild(startParentScope(ctx, o), randSpan, randTrace)

\* span.SetAttribute, span.Event, span.Finish: one event each,
\* in the span's own scope.
setAttributeEvent(initial, kv) ==
  [Ev("MODIFY_ATTR") EXCEPT !.Scope = initial, !.Attribute = kv]

SetAttribute(S, initial, kv) == Record(S, setAttributeEvent(initial, kv))

addEventEvent(initial, ctx, msg, attrs) ==
  [Ev("ADD_EVENT") EXCEPT !.Scope = initial, !.Context = ctx,
                          !.String = msg, !.Attributes = attrs]

AddEvent(S, initial, ctx, msg, attrs) == Record(S, addEventEvent(initial, ctx, msg, attrs))

finishEvent(initial) == [Ev("FINISH_SPAN") EXCEPT !.Scope = initial]

Finish(S, initial) == Record(S, finishEvent(initial))

\* faulty variant: Finish is called at once instead of being deferred
withSpanExitFinishFirst(S, initial, ctx, err) ==
  IF err # ""
  THEN AddEvent(SetAttribute(Finish(S, initial), initial, KV(ErrorKey, "true")),
                initial, ctx, "span error", <<KV(MessageKey, err)>>)
  ELSE Finish(S, initial)

\* tracer.WithSpan after the body has returned err ("" for nil): the error
\* attribute and event when err is not nil, then the deferred Finish.
withSpanExit(S, initial, ctx, err) ==
  IF err # ""
  THEN Finish(AddEvent(SetAttribute(S, initial, KV(ErrorKey, "true")),
                       initial, ctx, "span error", <<KV(MessageKey, err)>>),
              initial)
  ELSE Finish(S, initial)

\* tracer.WithSpan's return value: err, or nil
withSpanReturn(err) == IF err # "" THEN err ELSE ""

\* ------------------------------------------------- the tracer's operations
Handle(initial, t) == [initial |-> initial, tracer |-> t, finished |-> FALSE]

\* the contexts a caller can hold: the background, and the context returned
\* by the Start of each span
Contexts ==
  {BgCtx} \cup {SetCurrentSpan(BgCtx, h, handles[h].initial.SpanContext) : h \in DOMAIN handles}

HandleCtx(h) == SetCurrentSpan(BgCtx, h, handles[h].initial.SpanContext)

Live == {h \in DOMAIN handles : ~handles[h].finished}

References == {EmptySC, RemoteSC}

StartAttributes == {<< >>, <<KV("x", "1")>>}

ResourceAttributes == {<<KV("region", "eu")>>}

Room(n) == ~fatal /\ nextID + n <= MaxEvents

\* tracers holds the tracer made by New() and the derived ones
MayDerive == Cardinality(tracers) <= MaxTracers

WithResourcesStep(t, attrs) ==
  LET S == WithResources(Cur, t, attrs)
  IN  Becomes(S) /\ tracers' = tracers \cup {S.nextID}

WithComponentStep(t, name) ==
  LET S == WithComponent(Cur, t, name)
  IN  Becomes(S) /\ tracers' = tracers \cup {S.nextID}

WithServiceStep(t, name) ==
  LET S == WithService(Cur, t, name)
  IN  Becomes(S) /\ tracers' = tracers \cup {S.nextID}

DoWithResources ==
  /\ Room(1)
  /\ MayDerive
  /\ \E t \in tracers, attrs \in ResourceAttributes : WithResourcesStep(t, attrs)
  /\ UNCHANGED <<handles, wspan, wresult, cfgvars, concvars>>

DoWithComponent ==
  /\ Room(1)
  /\ MayDerive
  /\ \E t \in tracers : WithComponentStep(t, "db")
  /\ UNCHANGED <<handles, wspan, wresult, cfgvars, concvars>>

DoWithService ==
  /\ Room(1)
  /\ MayDerive
  /\ \E t \in tracers : WithServiceStep(t, "svc")
  /\ UNCHANGED <<handles, wspan, wresult, cfgvars, concvars>>

StartStep(t, ctx, o, rs, rt) ==
  LET S == Start(Cur, t, ctx, "op", o, rs, rt)
  IN  /\ Becomes(S)
      /\ handles' = Store(handles, S.nextID,
                          Handle(ScopeID(S.nextID, StartChild(ctx, o, rs, rt)), t))

DoStart ==
  /\ Room(2)
  /\ \E t \in tracers, ctx \in Contexts, ref \in References, attrs \in StartAttributes,
        rs \in RandVals, rt \in RandVals :
       StartStep(t, ctx, SpanOptions(ref, attrs), rs, rt)
  /\ UNCHANGED <<tracers, wspan, wresult, cfgvars, concvars>>

DoSetAttribute ==
  /\ Room(1)
  /\ \E h \in Live : Becomes(SetAttribute(Cur, handles[h].initial, KV("y", "2")))
  /\ UNCHANGED <<tracers, handles, wspan, wresult, cfgvars, concvars>>

DoEvent ==
  /\ Room(1)
  /\ \E h \in Live :
       Becomes(AddEvent(Cur, handles[h].initial, HandleCtx(h), "msg", <<KV("z", "3")>>))
  /\ UNCHANGED <<tracers, handles, wspan, wresult, cfgvars, concvars>>

\* span.Finish by the caller; the span of a running WithSpan is finished by
\* WithSpan itself.
DoFinish ==
  /\ Room(1)
  /\ \E h \in Live \ {wspan} :
       /\ Becomes(Finish(Cur, handles[h].initial))
       /\ handles' = [handles EXCEPT ![h].finished = TRUE]
  /\ UNCHANGED <<tracers, wspan, wresult, cfgvars, concvars>>

\* tracer.WithSpan up to the call of body: Start without options.
WithSpanEnter ==
  /\ wspan = 0
  /\ Room(2)
  /\ \E t \in tracers, ctx \in Contexts, rs \in RandVals, rt \in RandVals :
       /\ StartStep(t, ctx, NoOptions, rs, rt)
       /\ wspan' = nextID + 2
  /\ UNCHANGED <<tracers, wresult, cfgvars, concvars>>

\* the body returns err; tracer.WithSpan runs to its end.
Errors == {"", "boom"}

WithSpanExitStep(err) ==
  /\ Becomes(withSpanExit(Cur, handles[wspan].initial, HandleCtx(wspan), err))
  /\ wresult' = withSpanReturn(err)
  /\ handles' = [handles EXCEPT ![wspan].finished = TRUE]
  /\ wspan' = 0

WithSpanExit ==
  /\ wspan # 0
  /\ \E err \in Errors :
       /\ Room(IF err = "" THEN 1 ELSE 3)
       /\ WithSpanExitStep(err)
  /\ UNCHANGED <<tracers, cfgvars, concvars>>

\* ------------------------------------------------- sdk/trace: ApplyConfig
\* The default caps of config.go
DefaultMaxEventsPerSpan == 128

DefaultMaxAttributesPerSpan == 32

DefaultMaxLinksPerSpan == 32

\* Config; a nil DefaultSampler or IDGenerator is 0
Config(sampler, idgen, events, attrs, links) ==
  [DefaultSampler |-> sampler, IDGenerator |-> idgen, MaxEventsPerSpan |-> events,
   MaxAttributesPerSpan |-> attrs, MaxLinksPerSpan |-> links]

\* the config the package starts with: a sampler, an id generator and the
\* default caps
InitialConfig ==
  Config(1, 1, DefaultMaxEventsPerSpan, DefaultMaxAttributesPerSpan, DefaultMaxLinksPerSpan)

\* the goroutines that call ApplyConfig
Writers == 1..NumWriters

\* the arguments they pass
CfgArgs ==
  {Config(0, 0, 0, 0, 0),
   Config(2, 0, 0, 0, 0),
   Config(0, 2, 5, 0, 0 - 1),
   Config(0, 0, 0 - 1, 7, 0),
   Config(3, 0, 0, 0, 9),
   Config(0, 0, 6, 0, 0)}

\* faulty variant: Lock does not wait for the holder
mutexLockNoWait(mu) == TRUE

\* configWriteMu.Lock() returns only when nobody holds the mutex
mutexLock(mu) == mu = 0

\* c := *config.Load().(*Config): c is a new object, a copy of the published one
loadCopy(pub, fresh) == fresh

\* if cfg.DefaultSampler != nil / if cfg.IDGenerator != nil
applyPointer(old, new) == IF new # 0 THEN new ELSE old

\* faulty variant: a cap of 0 overrides too
applyCapNonNegative(old, new) == IF new >= 0 THEN new ELSE old

\* if cfg.MaxEventsPerSpan > 0 (and the two other caps)
applyCap(old, new) == IF new > 0 THEN new ELSE old

\* calls begun so far: the published ones and those under way
CallsBegun == Len(applied) + Cardinality({w \in Writers : wpc[w] # "idle"})

ObsUnchanged == UNCHANGED <<obsvars, concvars>>

\* ApplyConfig is entered: configWriteMu.Lock()
ApplyLock(w) ==
  /\ wpc[w] = "idle"
  /\ CallsBegun < MaxApply
  /\ mutexLock(configWriteMu)
  /\ \E cfg \in CfgArgs : warg' = [warg EXCEPT ![w] = cfg]
  /\ configWriteMu' = w
  /\ wpc' = [wpc EXCEPT ![w] = "load"]
  /\ UNCHANGED <<config, cfgHeap, wc, applied, rptr, loaded>>
  /\ ObsUnchanged

\* c := *config.Load().(*Config)
ApplyLoad(w) ==
  /\ wpc[w] = "load"
  /\ LET c == loadCopy(config, Len(cfgHeap) + 1)
     IN  /\ wc' = [wc EXCEPT ![w] = c]
         /\ cfgHeap' = IF c \in DOMAIN cfgHeap THEN cfgHeap
                       ELSE Append(cfgHeap, cfgHeap[config])
  /\ wpc' = [wpc EXCEPT ![w] = "sampler"]
  /\ UNCHANGED <<config, configWriteMu, warg, applied, rptr, loaded>>
  /\ ObsUnchanged

ApplySampler(w) ==
  /\ wpc[w] = "sampler"
  /\ cfgHeap' = [cfgHeap EXCEPT ![wc[w]].DefaultSampler =
                                   applyPointer(@, warg[w].DefaultSampler)]
  /\ wpc' = [wpc EXCEPT ![w] = "idgen"]
  /\ UNCHANGED <<config, configWriteMu, warg, wc, applied, rptr, loaded>>
  /\ ObsUnchanged

ApplyIDGenerator(w) ==
  /\ wpc[w] = "idgen"
  /\ cfgHeap' = [cfgHeap EXCEPT ![wc[w]].IDGenerator =
                                   applyPointer(@, warg[w].IDGenerator)]
  /\ wpc' = [wpc EXCEPT ![w] = "events"]
  /\ UNCHANGED <<config, configWriteMu, warg, wc, applied, rptr, loaded>>
  /\ ObsUnchanged

ApplyMaxEvents(w) ==
  /\ wpc[w] = "events"
  /\ cfgHeap' = [cfgHeap EXCEPT ![wc[w]].MaxEventsPerSpan =
                                   applyCap(@, warg[w].MaxEventsPerSpan)]
  /\ wpc' = [wpc EXCEPT ![w] = "attrs"]
  /\ UNCHANGED <<config, configWriteMu, warg, wc, applied, rptr, loaded>>
  /\ ObsUnchanged

ApplyMaxAttributes(w) ==
  /\ wpc[w] = "attrs"
  /\ cfgHeap' = [cfgHeap EXCEPT ![wc[w]].MaxAttributesPerSpan =
                                   applyCap(@, warg[w].MaxAttributesPerSpan)]
  /\ wpc' = [wpc EXCEPT ![w] = "links"]
  /\ UNCHANGED <<config, configWriteMu, warg, wc, applied, rptr, loaded>>
  /\ ObsUnchanged

ApplyMaxLinks(w) ==
  /\ wpc[w] = "links"
  /\ cfgHeap' = [cfgHeap EXCEPT ![wc[w]].MaxLinksPerSpan =
                                   applyCap(@, warg[w].MaxLinksPerSpan)]
  /\ wpc' = [wpc EXCEPT ![w] = "store"]
  /\ UNCHANGED <<config, configWriteMu, warg, wc, applied, rptr, loaded>>
  /\ ObsUnchanged

\* config.Store(&c)
ApplyStore(w) ==
  /\ wpc[w] = "store"
  /\ config' = wc[w]
  /\ applied' = Append(applied, [writer |-> w, cfg |-> warg[w]])
  /\ wpc' = [wpc EXCEPT ![w] = "unlock"]
  /\ UNCHANGED <<cfgHeap, configWriteMu, warg, wc, rptr, loaded>>
  /\ ObsUnchanged

\* the deferred configWriteMu.Unlock(); ApplyConfig returns
ApplyUnlock(w) ==
  /\ wpc[w] = "unlock"
  /\ configWriteMu' = 0
  /\ wpc' = [wpc EXCEPT ![w] = "idle"]
  /\ UNCHANGED <<config, cfgHeap, warg, wc, applied, rptr, loaded>>
  /\ ObsUnchanged

\* a consumer: config.Load(), without the mutex
ConsumerLoad ==
  /\ rptr = 0
  /\ Len(loaded) < MaxLoads
  /\ rptr' = config
  /\ UNCHANGED <<config, cfgHeap, configWriteMu, wpc, warg, wc, applied, loaded>>
  /\ ObsUnchanged

\* the consumer reads the fields of the Config it loaded
ConsumerRead ==
  /\ rptr # 0
  /\ loaded' = Append(loaded, cfgHeap[rptr])
  /\ rptr' = 0
  /\ UNCHANGED <<config, cfgHeap, configWriteMu, wpc, warg, wc, applied>>
  /\ ObsUnchanged

\* ------------------------------------- the tracer used by several goroutines
\* Each goroutine runs one producer operation at a time.  observer.Record
\* hands out the sequence number atomically and then runs the reader
\* observer's handler in the calling goroutine; a step here is the allocation
\* or one access of the handler to the scope table.
Threads == 1..NumThreads

NoNode == [kind |-> "scope", span |-> 0, parent |-> 0, attributes |-> EmptyMap]

NoLocal == [attributes |-> EmptyMap, read |-> ReadInit(Ev("INVALID")), sc |-> NoNode]

NoOp == [kind |-> "none", h |-> 0, tracer |-> 0, child |-> EmptySC, ctx |-> BgCtx,
         parentScope |-> NoScope, o |-> NoOptions]

CRoom(n) == ~fatal /\ nextID + n <= MaxConcEvents

CFrame == UNCHANGED <<wspan, wresult, cfgvars>>

\* the goroutines in the middle of an operation on span h
OpsOn(h) == {t \in Threads : tpc[t] # "idle" /\ top[t].h = h}

\* goroutine t gets the next sequence number for event e
CEmit(t, e) ==
  /\ Becomes(Emit(Cur, e))
  /\ tev' = [tev EXCEPT ![t] = Stamped(Cur, e)]

CDone(t) ==
  /\ tpc' = [tpc EXCEPT ![t] = "idle"]
  /\ tloc' = [tloc EXCEPT ![t] = NoLocal]
  /\ top' = [top EXCEPT ![t] = NoOp]

CPanic(t) == Becomes(Panic(Cur)) /\ CDone(t) /\ tev' = tev

\* WithResources: NewScope off the receiver's resources
CBeginWithResources(t) ==
  /\ tpc[t] = "idle"
  /\ CRoom(1)
  /\ MayDerive
  /\ \E tr \in tracers :
       /\ CEmit(t, newScopeEvent(ScopeID(tr, EmptySC), <<KV("region", "eu")>>))
       /\ top' = [top EXCEPT ![t] = [NoOp EXCEPT !.kind = "derive", !.tracer = tr]]
  /\ tpc' = [tpc EXCEPT ![t] = "scope_lookup"]
  /\ UNCHANGED <<tloc, tracers, handles>>
  /\ CFrame

\* Start up to the sequence number of its NEW_SCOPE event
CBeginStart(t) ==
  /\ tpc[t] = "idle"
  /\ CRoom(2)
  /\ \E tr \in tracers, ctx \in Contexts, rs \in RandVals :
       LET o == SpanOptions(EmptySC, <<KV("x", "1")>>)
           parentScope == startParentScope(ctx, o)
           child == startChild(parentScope, rs, 1)
       IN  /\ CEmit(t, newScopeEvent(ScopeID(tr, child), o.Attributes))
           /\ top' = [top EXCEPT ![t] = [NoOp EXCEPT !.kind = "start", !.tracer = tr,
                                                     !.child = child, !.ctx = ctx,
                                                     !.parentScope = parentScope,
                                                     !.o = o]]
  /\ tpc' = [tpc EXCEPT ![t] = "scope_lookup"]
  /\ UNCHANGED <<tloc, tracers, handles>>
  /\ CFrame

\* span.SetAttribute on a span whose Start has returned and whose Finish has
\* not been called
CBeginSetAttribute(t) ==
  /\ tpc[t] = "idle"
  /\ CRoom(1)
  /\ \E h \in Live :
       /\ CEmit(t, setAttributeEvent(handles[h].initial, KV("y", "2")))
       /\ top' = [top EXCEPT ![t] = [NoOp EXCEPT !.kind = "modify", !.h = h]]
  /\ tpc' = [tpc EXCEPT ![t] = "scope_lookup"]
  /\ UNCHANGED <<tloc, tracers, handles>>
  /\ CFrame

\* NEW_SCOPE, MODIFY_ATTR: ro.scopes.Load(sid.EventID)
CScopeLookup(t) ==
  /\ tpc[t] = "scope_lookup"
  /\ ~fatal
  /\ IF scopeParentMissing(Cur, tev[t]) THEN CPanic(t)
     ELSE /\ tloc' = [tloc EXCEPT ![t].sc = scopeNode(Cur, tev[t])]
          /\ tpc' = [tpc EXCEPT ![t] = "scope_store"]
          /\ UNCHANGED <<obsvars, tev, top>>
  /\ UNCHANGED <<tracers, handles>>
  /\ CFrame

\* NEW_SCOPE, MODIFY_ATTR: ro.scopes.Store(event.Sequence, sc); then
\* WithResources returns the new tracer, Start goes on to its START_SPAN
\* event, SetAttribute returns
CScopeStore(t) ==
  /\ tpc[t] = "scope_store"
  /\ ~fatal
  /\ Becomes(scopeStoreDeliver(Cur, tev[t], tloc[t].sc))
  /\ tracers' = IF top[t].kind = "derive" THEN tracers \cup {tev[t].Sequence} ELSE tracers
  /\ IF top[t].kind = "start"
     THEN /\ tpc' = [tpc EXCEPT ![t] = "start_alloc"]
          /\ UNCHANGED <<tloc, top>>
     ELSE CDone(t)
  /\ UNCHANGED <<tev, handles>>
  /\ CFrame

\* Start: the sequence number of the START_SPAN event
CStartAlloc(t) ==
  /\ tpc[t] = "start_alloc"
  /\ ~fatal
  /\ CEmit(t, startSpanEvent(ScopeID(tev[t].Sequence, top[t].child), top[t].ctx, "op",
                             top[t].o, top[t].parentScope))
  /\ tpc' = [tpc EXCEPT ![t] = "start_lookup"]
  /\ UNCHANGED <<tloc, top, tracers, handles>>
  /\ CFrame

\* START_SPAN: readScope(event.Scope) and the parent
CStartLookup(t) ==
  /\ tpc[t] = "start_lookup"
  /\ ~fatal
  /\ LET l == startSpanLookup(Cur, tev[t])
     IN  IF ~l.has THEN CPanic(t)
         ELSE /\ tloc' = [tloc EXCEPT ![t].attributes = l.attributes, ![t].read = l.read]
              /\ tpc' = [tpc EXCEPT ![t] = "start_store"]
              /\ UNCHANGED <<obsvars, tev, top>>
  /\ UNCHANGED <<tracers, handles>>
  /\ CFrame

\* START_SPAN: ro.scopes.Store(event.Sequence, span), the delivery; Start
\* returns the span
CStartStore(t) ==
  /\ tpc[t] = "start_store"
  /\ ~fatal
  /\ Becomes(startSpanStore(Cur, tev[t], tloc[t]))
  /\ handles' = Store(handles, tev[t].Sequence,
                      Handle(ScopeID(tev[t].Sequence, top[t].child), top[t].tracer))
  /\ CDone(t)
  /\ UNCHANGED <<tev, tracers>>
  /\ CFrame

\* span.Event
CBeginEvent(t) ==
  /\ tpc[t] = "idle"
  /\ CRoom(1)
  /\ \E h \in Live :
       /\ CEmit(t, addEventEvent(handles[h].initial, HandleCtx(h), "msg", <<KV("z", "3")>>))
       /\ top' = [top EXCEPT ![t] = [NoOp EXCEPT !.kind = "event", !.h = h]]
  /\ tpc' = [tpc EXCEPT ![t] = "event_observe"]
  /\ UNCHANGED <<tloc, tracers, handles>>
  /\ CFrame

\* ADD_EVENT: readScope(event.Scope) and the delivery
CObserveEvent(t) ==
  /\ tpc[t] = "event_observe"
  /\ ~fatal
  /\ Becomes(observeAddEvent(Cur, tev[t]))
  /\ CDone(t)
  /\ UNCHANGED <<tev, tracers, handles>>
  /\ CFrame

\* span.Finish, once per span and after the other operations on it
CBeginFinish(t) ==
  /\ tpc[t] = "idle"
  /\ CRoom(1)
  /\ \E h \in Live :
       /\ OpsOn(h) = {}
       /\ CEmit(t, finishEvent(handles[h].initial))
       /\ top' = [top EXCEPT ![t] = [NoOp EXCEPT !.kind = "finish", !.h = h]]
       /\ handles' = [handles EXCEPT ![h].finished = TRUE]
  /\ tpc' = [tpc EXCEPT ![t] = "finish_lookup"]
  /\ UNCHANGED <<tloc, tracers>>
  /\ CFrame

\* FINISH_SPAN: readScope(event.Scope), the record and its delivery
CFinishLookup(t) ==
  /\ tpc[t] = "finish_lookup"
  /\ ~fatal
  /\ LET r == readScope(Cur, tev[t].Scope)
     IN  IF ~r.has \/ r.span = 0 THEN CPanic(t)
         ELSE /\ Becomes(Deliver(Cur, finishRead(Cur, tev[t], r)))
              /\ tpc' = [tpc EXCEPT ![t] = "finish_cleanup"]
              /\ UNCHANGED <<tev, tloc, top>>
  /\ UNCHANGED <<tracers, handles>>
  /\ CFrame

\* FINISH_SPAN: ro.cleanupSpan(event.Scope.EventID); Finish returns
CFinishCleanup(t) ==
  /\ tpc[t] = "finish_cleanup"
  /\ ~fatal
  /\ Becomes(cleanupSpan(Cur, tev[t].Scope.EventID))
  /\ CDone(t)
  /\ UNCHANGED <<tev, tracers, handles>>
  /\ CFrame

Init ==
  /\ nextID = 0
  /\ emitted = << >>
  /\ scopes = << >>
  /\ spans = << >>
  /\ measures = << >>
  /\ metrics = << >>
  /\ log = << >>
  /\ fatal = FALSE
  /\ tracers = {0}
  /\ handles = << >>
  /\ wspan = 0
  /\ wresult = ""
  /\ config = 1
  /\ cfgHeap = <<InitialConfig>>
  /\ configWriteMu = 0
  /\ wpc = [w \in Writers |-> "idle"]
  /\ warg = [w \in Writers |-> Config(0, 0, 0, 0, 0)]
  /\ wc = [w \in Writers |-> 0]
  /\ applied = << >>
  /\ rptr = 0
  /\ loaded = << >>
  /\ tpc = [t \in Threads |-> "idle"]
  /\ tev = [t \in Threads |-> Ev("INVALID")]
  /\ tloc = [t \in Threads |-> NoLocal]
  /\ top = [t \in Threads |-> NoOp]

NextObs ==
  \/ RecordStartSpan
  \/ RecordFinishSpan
  \/ RecordNewScope
  \/ RecordModifyAttr
  \/ RecordAddEvent
  \/ RecordNewMeasure
  \/ RecordNewMetric
  \/ RecordStats
  \/ RecordSetStatus
  \/ RecordInvalid

SpecObs == Init /\ [][NextObs]_vars

Next ==
  \/ DoWithResources
  \/ DoWithComponent
  \/ DoWithService
  \/ DoStart
  \/ DoSetAttribute
  \/ DoEvent
  \/ DoFinish
  \/ WithSpanEnter
  \/ WithSpanExit

Spec == Init /\ [][Next]_vars

NextCfg ==
  \/ \E w \in Writers : ApplyLock(w)
  \/ \E w \in Writers : ApplyLoad(w)
  \/ \E w \in Writers : ApplySampler(w)
  \/ \E w \in Writers : ApplyIDGenerator(w)
  \/ \E w \in Writers : ApplyMaxEvents(w)
  \/ \E w \in Writers : ApplyMaxAttributes(w)
  \/ \E w \in Writers : ApplyMaxLinks(w)
  \/ \E w \in Writers : ApplyStore(w)
  \/ \E w \in Writers : ApplyUnlock(w)
  \/ ConsumerLoad
  \/ ConsumerRead

SpecCfg == Init /\ [][NextCfg]_vars

NextConc ==
  \/ \E t \in Threads : CBeginWithResources(t)
  \/ \E t \in Threads : CBeginStart(t)
  \/ \E t \in Threads : CBeginSetAttribute(t)
  \/ \E t \in Threads : CScopeLookup(t)
  \/ \E t \in Threads : CScopeStore(t)
  \/ \E t \in Threads : CStartAlloc(t)
  \/ \E t \in Threads : CStartLookup(t)
  \/ \E t \in Threads : CStartStore(t)
  \/ \E t \in Threads : CBeginEvent(t)
  \/ \E t \in Threads : CObserveEvent(t)
  \/ \E t \in Threads : CBeginFinish(t)
  \/ \E t \in Threads : CFinishLookup(t)
  \/ \E t \in Threads : CFinishCleanup(t)

SpecConc == Init /\ [][NextConc]_vars


\* ------------------------------------------------------------------ claims
\* the record of the latest reader.Read call
LastRecord == log[Len(log)].rec

\* the records reader r has received, in order
RECURSIVE ReadBy(_, _)
ReadBy(r, l) ==
  IF l = << >> THEN << >>
  ELSE IF Head(l).reader = r THEN <<Head(l).rec>> \o ReadBy(r, Tail(l))
       ELSE ReadBy(r, Tail(l))

\* the START_SPAN events of the stream
StartEvents == {i \in DOMAIN emitted : emitted[i].Type = "START_SPAN"}

\* the record delivered for the event with sequence number seq
RecordsOf(seq) == {i \in DOMAIN log : log[i].rec.Sequence = seq}

\* a step in which tracer.Start ran: NEW_SCOPE then START_SPAN were recorded
IsStartStep ==
  /\ nextID' = nextID + 2
  /\ emitted'[nextID'].Type = "START_SPAN"

\* the arguments of that Start, as far as its events show them
StartTracer == emitted'[nextID + 1].Scope.EventID

StartCtx == emitted'[nextID'].Context

StartAttrs == emitted'[nextID + 1].Attributes

\* C1: when Start is called with no explicit reference and a context whose
\* current span B is live and carries a trace id, the START_SPAN record of the
\* new span has B's trace id, Parent = B's span context and ParentAttributes =
\* B's attribute snapshot.
C1_LocalParent ==
  [][IsStartStep
     => \A rs \in RandVals, rt \in RandVals :
          (/\ StartCtx.span \in Live
           /\ HasTraceID(StartCtx.sc)
           /\ StartStep(StartTracer, StartCtx, SpanOptions(EmptySC, StartAttrs), rs, rt))
          => /\ LastRecord'.Type = "START_SPAN"
             /\ LastRecord'.SpanContext.TraceID = StartCtx.sc.TraceID
             /\ LastRecord'.Parent = StartCtx.sc
             /\ LastRecord'.ParentAttributes = scopes[StartCtx.span].attributes]_vars

\* C2: with an explicit reference carrying trace id T, the reference wins over
\* the context's current span: the new span's trace id is T, the START_SPAN
\* record has Parent = the reference and no ParentAttributes.  With neither a
\* reference nor a current span carrying a trace id, the span is a root: its
\* trace id is the generated one and Parent is empty.
C2_RemoteParent ==
  [][IsStartStep
     => \A ref \in References, rs \in RandVals, rt \in RandVals :
          StartStep(StartTracer, StartCtx, SpanOptions(ref, StartAttrs), rs, rt)
          => /\ LastRecord'.Type = "START_SPAN"
             /\ HasTraceID(ref)
                => /\ LastRecord'.SpanContext = SC(ref.TraceID, rs)
                   /\ handles'[nextID'].initial.SpanContext = SC(ref.TraceID, rs)
                   /\ LastRecord'.Parent = ref
                   /\ LastRecord'.ParentAttributes = EmptyMap
             /\ (~HasTraceID(ref) /\ ~HasTraceID(StartCtx.sc))
                => /\ LastRecord'.SpanContext = SC(rt, rs)
                   /\ handles'[nextID'].initial.SpanContext = SC(rt, rs)
                   /\ LastRecord'.Parent = EmptySC
                   /\ LastRecord'.ParentAttributes = EmptyMap]_vars

\* C2 witness: a span was started with a reference while the context's current
\* span carried another trace id, and the record names the reference as Parent.
C2_Witness ==
  \E i \in StartEvents :
    /\ emitted[i].Context.span # 0
    /\ HasTraceID(emitted[i].Context.sc)
    /\ emitted[i].Context.sc.TraceID # RemoteSC.TraceID
    /\ \E j \in RecordsOf(emitted[i].Sequence) :
         /\ log[j].rec.Parent = RemoteSC
         /\ log[j].rec.SpanContext.TraceID = RemoteSC.TraceID

\* C3: Start with {x:1}, then MODIFY_ATTR {y:2} in the span's scope, then
\* FINISH_SPAN in the span's scope: a reader gets exactly START_SPAN {x:1},
\* MODIFY_ATTR {x:1, y:2}, FINISH_SPAN {x:1, y:2}, in this order.
X1 == [x |-> "1"]

X1Y2 == [x |-> "1", y |-> "2"]

C3_IsScenario ==
  /\ Len(emitted) = 4
  /\ emitted[1].Type = "NEW_SCOPE" /\ emitted[1].Attributes = <<KV("x", "1")>>
  /\ emitted[1].Scope.EventID = 0
  /\ emitted[2].Type = "START_SPAN" /\ emitted[2].Scope.EventID = 1
  /\ emitted[3].Type = "MODIFY_ATTR" /\ emitted[3].Attribute = KV("y", "2")
  /\ emitted[3].Scope.EventID = 2
  /\ emitted[4].Type = "FINISH_SPAN" /\ emitted[4].Scope.EventID = 2

C3_Scenario ==
  C3_IsScenario
  => \A r \in Readers :
       LET recs == ReadBy(r, log)
       IN  /\ Len(recs) = 3
           /\ recs[1].Type = "START_SPAN" /\ recs[1].Attributes = X1
           /\ recs[2].Type = "MODIFY_ATTR" /\ recs[2].Attributes = X1Y2
           /\ recs[3].Type = "FINISH_SPAN" /\ recs[3].Attributes = X1Y2


\* a step that recorded exactly one event, and that event
IsOneEventStep == nextID' = nextID + 1

NewEvent == emitted'[nextID']

\* the delta an event carries
EventUpdate(e) == MapUpdate(e.Attribute, e.Attributes, e.Mutator, e.Mutators)

\* C4: a NEW_SCOPE or MODIFY_ATTR event stores, under its own identifier, a
\* node whose attributes are the referenced parent's snapshot with the delta
\* applied and whose parent is the referenced identifier; the parent node and
\* every other node stay as they were; no event overwrites an existing key.
C4_Snapshot ==
  [][IsOneEventStep
     => /\ \A id \in (DOMAIN scopes) \cap (DOMAIN scopes') : scopes'[id] = scopes[id]
        /\ (NewEvent.Type \in {"NEW_SCOPE", "MODIFY_ATTR"} /\ ~fatal')
           => LET sid == NewEvent.Scope.EventID
              IN  /\ NewEvent.Sequence \notin DOMAIN scopes
                  /\ DOMAIN scopes' = (DOMAIN scopes) \cup {NewEvent.Sequence}
                  /\ scopes'[NewEvent.Sequence].parent = sid
                  /\ scopes'[NewEvent.Sequence].attributes =
                       Apply(IF sid = 0 THEN EmptyMap ELSE scopes[sid].attributes,
                             EventUpdate(NewEvent))]_vars

\* C4 witness: a MODIFY_ATTR node whose snapshot differs from the snapshot of
\* its parent, which is still stored and not empty.
C4_Witness ==
  \E id \in DOMAIN scopes :
    /\ emitted[id].Type = "MODIFY_ATTR"
    /\ scopes[id].parent \in DOMAIN scopes
    /\ scopes[scopes[id].parent].attributes # EmptyMap
    /\ scopes[id].attributes # scopes[scopes[id].parent].attributes

OutputTypes ==
  {"START_SPAN", "FINISH_SPAN", "MODIFY_ATTR", "ADD_EVENT", "RECORD_STATS", "SET_STATUS"}

SilentTypes == {"NEW_SCOPE", "NEW_MEASURE", "NEW_METRIC"}

\* C5: a processed START_SPAN, FINISH_SPAN, MODIFY_ATTR, ADD_EVENT,
\* RECORD_STATS or SET_STATUS event gives one record, read once by every reader
\* in registration order, for FINISH_SPAN before the cleanup (so also when the
\* cleanup then fails); NEW_SCOPE, NEW_MEASURE and NEW_METRIC give no record.
C5_Delivery ==
  [][IsOneEventStep
     => /\ NewEvent.Type \in SilentTypes => log' = log
        /\ (/\ NewEvent.Type \in OutputTypes
            /\ ~fatal' \/ (NewEvent.Type = "FINISH_SPAN" /\ scopes' # scopes))
           => /\ Len(log') = Len(log) + NumReaders
              /\ SubSeq(log', 1, Len(log)) = log
              /\ \A r \in Readers :
                   /\ log'[Len(log) + r].reader = r
                   /\ log'[Len(log) + r].rec = log'[Len(log) + 1].rec
              /\ log'[Len(log) + 1].rec.Type = NewEvent.Type
              /\ log'[Len(log) + 1].rec.Sequence = NewEvent.Sequence]_vars

\* C5 witness: a FINISH_SPAN whose cleanup failed after its record was read by
\* the last reader.
C5_Witness ==
  /\ fatal
  /\ log # << >>
  /\ log[Len(log)].reader = NumReaders
  /\ LastRecord.Type = "FINISH_SPAN"
  /\ LastRecord.Sequence = nextID

\* the START_SPAN event that owns the scope id, as the event stream tells it:
\* follow the scope references of NEW_SCOPE and MODIFY_ATTR events (0: none)
RECURSIVE OwnerOf(_)
OwnerOf(id) ==
  IF id = 0 \/ id \notin DOMAIN emitted THEN 0
  ELSE IF emitted[id].Type = "START_SPAN" THEN id
       ELSE IF emitted[id].Type \in {"NEW_SCOPE", "MODIFY_ATTR"}
            THEN OwnerOf(emitted[id].Scope.EventID)
            ELSE 0

\* C10: every FINISH_SPAN record has Duration = the FINISH_SPAN event's time
\* minus the START_SPAN event's time, Tags = the tags of the START_SPAN event's
\* context, and the Name and SpanContext of the START_SPAN event.
C10_FinishRecord ==
  \A i \in DOMAIN log :
    log[i].rec.Type = "FINISH_SPAN"
    => LET fin == emitted[log[i].rec.Sequence]
           start == emitted[OwnerOf(fin.Scope.EventID)]
       IN  /\ OwnerOf(fin.Scope.EventID) # 0
           /\ log[i].rec.Duration = fin.Time - start.Time
           /\ log[i].rec.Tags = FromContext(start.Context)
           /\ log[i].rec.Name = start.String
           /\ log[i].rec.SpanContext = start.Scope.SpanContext

\* C10 witness: a FINISH_SPAN record of a span that was modified in between,
\* with a finishing context whose tags differ from the start tags and a
\* duration that is not 0.
C10_Witness ==
  \E i \in DOMAIN log :
    /\ log[i].rec.Type = "FINISH_SPAN"
    /\ log[i].rec.Duration # 0
    /\ log[i].rec.Tags # FromContext(emitted[log[i].rec.Sequence].Context)
    /\ emitted[emitted[log[i].rec.Sequence].Scope.EventID].Type = "MODIFY_ATTR"


\* C6: WithSpan has emitted START_SPAN before the body and no FINISH_SPAN for
\* the span yet; when the body returns it emits, on an error, MODIFY_ATTR
\* error=true, then ADD_EVENT with the error message, and in both cases one
\* FINISH_SPAN as the last event, all in the span's scope; it returns the
\* body's error, or nil.
C6_WithSpan ==
  [][(wspan # 0 /\ wspan' = 0)
     => \A err \in Errors :
          WithSpanExitStep(err)
          => LET new == SubSeq(emitted', nextID + 1, nextID')
             IN  /\ emitted[wspan].Type = "START_SPAN"
                 /\ \A i \in DOMAIN emitted :
                      ~(emitted[i].Type = "FINISH_SPAN" /\ emitted[i].Scope.EventID = wspan)
                 /\ wresult' = err
                 /\ err = "" => Len(new) = 1
                 /\ err # ""
                    => /\ Len(new) = 3
                       /\ new[1].Type = "MODIFY_ATTR"
                       /\ new[1].Attribute = KV("error", "true")
                       /\ new[2].Type = "ADD_EVENT"
                       /\ new[2].Attributes = <<KV("message", err)>>
                 /\ new[Len(new)].Type = "FINISH_SPAN"
                 /\ \A i \in DOMAIN new : new[i].Scope = handles[wspan].initial]_vars

\* C6 witness: WithSpan returned the body's error after a body that used the
\* span; the stream ends with the body's event, MODIFY_ATTR error=true,
\* ADD_EVENT and FINISH_SPAN for that span.
C6_Witness ==
  /\ wresult = "boom"
  /\ wspan = 0
  /\ Len(emitted) >= 6
  /\ LET n == Len(emitted)
     IN  /\ emitted[n].Type = "FINISH_SPAN"
         /\ emitted[n - 1].Type = "ADD_EVENT"
         /\ emitted[n - 2].Attribute = KV("error", "true")
         /\ emitted[n - 3].Type \in {"MODIFY_ATTR", "ADD_EVENT"}
         /\ emitted[n - 3].Scope = emitted[n].Scope
         /\ emitted[emitted[n].Scope.EventID].Type = "START_SPAN"

\* the attributes of the resource layers of tracer t, as the event stream
\* tells them: the NEW_SCOPE deltas from the first call to the last
RECURSIVE ResourceLayers(_)
ResourceLayers(t) ==
  IF t = 0 THEN EmptyMap
  ELSE ApplyKVs(ResourceLayers(emitted[t].Scope.EventID), emitted[t].Attributes)

C7_Derived(t, attrs) ==
  /\ IsOneEventStep
  /\ NewEvent.Type = "NEW_SCOPE"
  /\ NewEvent.Scope.EventID = t
  /\ NewEvent.Attributes = attrs
  /\ log' = log
  /\ handles' = handles
  /\ tracers' = tracers \cup {NewEvent.Sequence}

\* C7: WithResources, WithComponent and WithService emit one NEW_SCOPE whose
\* scope reference is the receiver's resource scope, give no record and start
\* no span, keep the receiver, and return a tracer that remembers the new
\* scope's id; the START_SPAN record of a span started from a tracer has the
\* tracer's resource layers in call order, then the span's initial attributes.
C7_Resources ==
  [][/\ tracers' # tracers
        => \A t \in tracers :
             /\ \A attrs \in ResourceAttributes :
                  WithResourcesStep(t, attrs) => C7_Derived(t, attrs)
             /\ WithComponentStep(t, "db") => C7_Derived(t, <<KV("component", "db")>>)
             /\ WithServiceStep(t, "svc") => C7_Derived(t, <<KV("service", "svc")>>)
     /\ IsStartStep
        => /\ StartTracer \in tracers
           /\ tracers' = tracers
           /\ LastRecord'.Type = "START_SPAN"
           /\ LastRecord'.Attributes = ApplyKVs(ResourceLayers(StartTracer), StartAttrs)]_vars

\* C7 witness: a span with initial attributes started from a tracer derived by
\* two chained calls; its START_SPAN record has three attributes.
C7_Witness ==
  \E i \in StartEvents :
    LET t == emitted[i - 1].Scope.EventID
    IN  /\ t # 0
        /\ emitted[t].Scope.EventID # 0
        /\ emitted[i - 1].Attributes # << >>
        /\ \E j \in RecordsOf(i) : Cardinality(DOMAIN log[j].rec.Attributes) = 3

\* the MODIFY_ATTR nodes of span s that are stored, and the span node
OwnNodes(s) ==
  {s} \cup {id \in DOMAIN scopes : emitted[id].Type = "MODIFY_ATTR" /\ OwnerOf(id) = s}

\* C8: processing the FINISH_SPAN of a live span with N MODIFY_ATTR nodes of
\* its own removes exactly N+1 entries from the scope table, the span node and
\* those N nodes.
C8_CleanupSize ==
  [][(IsOneEventStep /\ NewEvent.Type = "FINISH_SPAN" /\ log' # log)
     => LET s == OwnerOf(NewEvent.Scope.EventID)
        IN  s \in DOMAIN scopes
            => /\ Cardinality(DOMAIN scopes') =
                    Cardinality(DOMAIN scopes) - Cardinality(OwnNodes(s))
               /\ OwnNodes(s) \cap DOMAIN scopes' = {}]_vars

\* two spans started from the same derived tracer, the first finished and the
\* second still live
Siblings(h1, h2) ==
  /\ h1 # h2
  /\ handles[h1].tracer = handles[h2].tracer
  /\ handles[h1].tracer # 0
  /\ handles[h1].finished
  /\ ~handles[h2].finished

\* C9 as stated: once one of two spans of a derived tracer has finished, the
\* shared resource scope node is no longer in the scope table.
C9_SharedAncestorDeleted ==
  \A h1 \in DOMAIN handles, h2 \in DOMAIN handles :
    Siblings(h1, h2) => handles[h1].tracer \notin DOMAIN scopes

\* C9 amended: a step removes from the scope table only the span node of a
\* span it finishes; the resource scope node of every derived tracer stays.
C9_ResourceScopeKept ==
  [][/\ \A id \in (DOMAIN scopes) \ (DOMAIN scopes') :
          /\ emitted[id].Type = "START_SPAN"
          /\ id \in DOMAIN handles
          /\ ~handles[id].finished
          /\ handles'[id].finished
     /\ \A id \in DOMAIN handles :
          (~handles[id].finished /\ handles'[id].finished) => id \notin DOMAIN scopes'
     /\ \A t \in tracers' \ {0} : t \in DOMAIN scopes']_vars

\* C9 witness: one of two spans of a derived tracer has finished and the
\* shared resource scope node and the live span's node are in the table.
C9_Witness ==
  \E h1 \in DOMAIN handles, h2 \in DOMAIN handles :
    /\ Siblings(h1, h2)
    /\ handles[h1].tracer \in DOMAIN scopes
    /\ h2 \in DOMAIN scopes
    /\ h1 \notin DOMAIN scopes

\* ------------------------------------------------------- claims: ApplyConfig
\* what a call with argument cfg is to make of the config old
Merged(old, cfg) ==
  [DefaultSampler |-> IF cfg.DefaultSampler # 0 THEN cfg.DefaultSampler
                      ELSE old.DefaultSampler,
   IDGenerator |-> IF cfg.IDGenerator # 0 THEN cfg.IDGenerator ELSE old.IDGenerator,
   MaxEventsPerSpan |-> IF cfg.MaxEventsPerSpan > 0 THEN cfg.MaxEventsPerSpan
                        ELSE old.MaxEventsPerSpan,
   MaxAttributesPerSpan |-> IF cfg.MaxAttributesPerSpan > 0 THEN cfg.MaxAttributesPerSpan
                            ELSE old.MaxAttributesPerSpan,
   MaxLinksPerSpan |-> IF cfg.MaxLinksPerSpan > 0 THEN cfg.MaxLinksPerSpan
                       ELSE old.MaxLinksPerSpan]

Caps == {"MaxEventsPerSpan", "MaxAttributesPerSpan", "MaxLinksPerSpan"}

\* the most recent positive value the first k published calls supplied for a
\* cap, or the cap's initial value
RECURSIVE LastPositive(_, _, _)
LastPositive(hist, cap, k) ==
  IF k = 0 THEN InitialConfig[cap]
  ELSE IF hist[k].cfg[cap] > 0 THEN hist[k].cfg[cap]
       ELSE LastPositive(hist, cap, k - 1)

\* the published config
Published == cfgHeap[config]

\* C11: the config an ApplyConfig call publishes has exactly the fields the
\* argument provides (a non-nil sampler or generator, a cap > 0) replaced and
\* every other field as it was; so every cap stays positive and equals the
\* most recent positive value supplied for it, or its initial value.
C11_MergeOnly ==
  [][\A w \in Writers :
       (wpc[w] = "store" /\ wpc'[w] = "unlock")
       => /\ Published' = Merged(Published, warg[w])
          /\ \A cap \in Caps :
               /\ Published'[cap] > 0
               /\ Published'[cap] = LastPositive(applied', cap, Len(applied'))]_vars

\* C11 witness: a call that gave no positive MaxEventsPerSpan was published
\* after one that gave 5 or 6; the cap still has that value, and
\* MaxAttributesPerSpan, which no call supplied, has its initial value.
C11_Witness ==
  /\ Len(applied) >= 2
  /\ applied[Len(applied)].cfg.MaxEventsPerSpan <= 0
  /\ applied[Len(applied) - 1].cfg.MaxEventsPerSpan > 0
  /\ Published.MaxEventsPerSpan = applied[Len(applied) - 1].cfg.MaxEventsPerSpan
  /\ Published.MaxAttributesPerSpan = DefaultMaxAttributesPerSpan
  /\ \A w \in Writers : wpc[w] = "idle"

\* the config after the first k published calls
RECURSIVE Fold(_)
Fold(k) == IF k = 0 THEN InitialConfig ELSE Merged(Fold(k - 1), applied[k].cfg)

\* C12: in every interleaving of ApplyConfig calls and consumers, the
\* published config is the result of all the published calls in their order
\* (no update is lost), and every Config a consumer read is the result of
\* some prefix of them, never a partly applied one.
C12_Swap ==
  /\ Published = Fold(Len(applied))
  /\ \A i \in DOMAIN loaded : \E k \in 0..Len(applied) : loaded[i] = Fold(k)

\* C12 witness: two goroutines have each published a call, one overriding the
\* sampler and the other a cap; both are in the published config; a consumer
\* that loaded between the two read the config after the first only.
C12_Witness ==
  /\ Len(applied) = 2
  /\ applied[1].writer # applied[2].writer
  /\ applied[1].cfg = Config(2, 0, 0, 0, 0)
  /\ applied[2].cfg = Config(0, 0, 6, 0, 0)
  /\ Published.DefaultSampler = 2
  /\ Published.MaxEventsPerSpan = 6
  /\ \E i \in DOMAIN loaded : loaded[i] = Fold(1)

\* ------------------------------------------------ claims: concurrent use
\* the identifier the handler of goroutine t is about to look up (0: none)
PendingLookup(t) ==
  IF tpc[t] \in {"scope_lookup", "start_lookup", "event_observe", "finish_lookup",
                 "finish_cleanup"}
  THEN tev[t].Scope.EventID
  ELSE 0

\* C13: when goroutines call WithResources, Start, span operations before
\* Finish, and Finish once per span, in any interleaving of their accesses to
\* the scope table, no handler has panicked and every identifier a handler is
\* about to look up is in the scope table (for FINISH_SPAN: as a node with an
\* owning span), so no operation reaches a fatal path and every Finish
\* completes.
C13_NoFault ==
  /\ ~fatal
  /\ \A t \in Threads :
       /\ PendingLookup(t) # 0 => PendingLookup(t) \in DOMAIN scopes
       /\ tpc[t] = "finish_lookup" => scopes[PendingLookup(t)].span # 0

\* C13 witness: a goroutine is about to look up the resource scope of a
\* derived tracer for a Start, after another span of that tracer was finished
\* and cleaned up, while the other goroutine is in the middle of an operation.
C13_Witness ==
  /\ ~fatal
  /\ \E t \in Threads, u \in Threads, h \in DOMAIN handles :
       /\ t # u
       /\ tpc[t] = "scope_lookup"
       /\ top[t].kind = "start"
       /\ top[t].tracer # 0
       /\ handles[h].tracer = top[t].tracer
       /\ handles[h].finished
       /\ h \notin DOMAIN scopes
       /\ tpc[u] \in {"scope_store", "finish_lookup", "finish_cleanup", "start_store"}

\* ------------------------------------------------- claims: the fatal paths
\* span s (the id of its START_SPAN event) has been finished: a FINISH_SPAN
\* event for it was processed and gave a record
Finished(s) ==
  \E i \in DOMAIN emitted :
    /\ emitted[i].Type = "FINISH_SPAN"
    /\ OwnerOf(emitted[i].Scope.EventID) = s
    /\ RecordsOf(emitted[i].Sequence) # {}

SpanOpTypes == {"FINISH_SPAN", "MODIFY_ATTR", "ADD_EVENT", "SET_STATUS", "RECORD_STATS"}

\* the event of this step ended in the fatal path, gave no record and stored
\* no node
FatalNoEffect ==
  /\ fatal'
  /\ log' = log
  /\ DOMAIN scopes' \subseteq DOMAIN scopes

\* C14: a FINISH_SPAN is processed without a panic only when its scope
\* reference resolves to a node owned by a span; a FINISH_SPAN whose scope is
\* 0 or has no owning span, and a FINISH_SPAN, MODIFY_ATTR, ADD_EVENT,
\* SET_STATUS or RECORD_STATS whose scope belongs to a span already finished,
\* end in the fatal path, deliver no record and store no node.
C14_FinishedGone ==
  [][IsOneEventStep
     => LET s == OwnerOf(NewEvent.Scope.EventID)
        IN  /\ (NewEvent.Type = "FINISH_SPAN" /\ ~fatal') => s # 0
            /\ (NewEvent.Type = "FINISH_SPAN" /\ s = 0) => FatalNoEffect
            /\ (NewEvent.Type \in SpanOpTypes /\ s # 0 /\ Finished(s)) => FatalNoEffect]_vars

\* the types whose handler looks the event's scope reference up in the scope
\* table
LookupTypes ==
  {"START_SPAN", "FINISH_SPAN", "NEW_SCOPE", "MODIFY_ATTR", "ADD_EVENT", "RECORD_STATS",
   "SET_STATUS"}

HandledTypes == LookupTypes \cup {"NEW_MEASURE", "NEW_METRIC"}

\* the event of this step ended in the fatal path, gave no record and left
\* the three tables as they were
FatalTablesKept ==
  /\ fatal'
  /\ log' = log
  /\ scopes' = scopes
  /\ measures' = measures
  /\ metrics' = metrics

\* C15 as stated: an event whose non-zero scope reference is not in the scope
\* table (for NEW_METRIC: not in the measure table), or whose type is not
\* handled, ends in the fatal path with no record and the tables unchanged; an
\* event with scope reference 0 never faults.
C15_FatalUnknown ==
  [][IsOneEventStep
     => LET ref == NewEvent.Scope.EventID
        IN  /\ (\/ NewEvent.Type \notin HandledTypes
                \/ /\ ref # 0
                   /\ IF NewEvent.Type = "NEW_METRIC" THEN ref \notin DOMAIN measures
                      ELSE ref \notin DOMAIN scopes)
               => FatalTablesKept
            /\ (/\ ref = 0
                /\ NewEvent.Type \in HandledTypes
                /\ NewEvent.Parent.EventID = 0)
               => ~fatal']_vars

\* the record of an event whose scope reference 0 resolved to the empty
\* snapshot with no owning span
ZeroResolved ==
  /\ ~fatal'
  /\ NewEvent.Type \in {"NEW_SCOPE", "MODIFY_ATTR"}
     => /\ scopes'[NewEvent.Sequence].span = 0
        /\ scopes'[NewEvent.Sequence].attributes = Apply(EmptyMap, EventUpdate(NewEvent))
  /\ NewEvent.Type = "START_SPAN"
     => /\ LastRecord'.Attributes = EmptyMap
        /\ scopes'[NewEvent.Sequence].attributes = EmptyMap
  /\ NewEvent.Type \in {"MODIFY_ATTR", "ADD_EVENT", "RECORD_STATS", "SET_STATUS"}
     => /\ LastRecord'.Sequence = NewEvent.Sequence
        /\ LastRecord'.SpanContext = EmptySC
        /\ spans' = spans
  /\ NewEvent.Type = "ADD_EVENT"
     => LastRecord'.Attributes = ApplyKVs(EmptyMap, NewEvent.Attributes)
  /\ NewEvent.Type \in {"RECORD_STATS", "SET_STATUS"} => LastRecord'.Attributes = EmptyMap

\* C15 amended: an event of a type that looks its scope reference up whose
\* non-zero reference is not in the scope table, a NEW_METRIC whose reference
\* is not in the measure table (0 included), a FINISH_SPAN with reference 0
\* and an event of an unhandled type end in the fatal path with no record and
\* the tables unchanged; NEW_MEASURE reads no reference and never faults; for
\* the other types a reference of 0 resolves to the empty snapshot with no
\* owning span and does not fault.
C15_FatalUnknownRef ==
  [][IsOneEventStep
     => LET ref == NewEvent.Scope.EventID
        IN  /\ (\/ NewEvent.Type \notin HandledTypes
                \/ NewEvent.Type \in LookupTypes /\ ref # 0 /\ ref \notin DOMAIN scopes
                \/ NewEvent.Type = "NEW_METRIC" /\ ref \notin DOMAIN measures
                \/ NewEvent.Type = "FINISH_SPAN" /\ ref = 0)
               => FatalTablesKept
            /\ NewEvent.Type = "NEW_MEASURE"
               => ~fatal' /\ DOMAIN measures' = DOMAIN measures \cup {NewEvent.Sequence}
            /\ (/\ ref = 0
                /\ NewEvent.Type \in LookupTypes \ {"FINISH_SPAN"}
                /\ NewEvent.Parent.EventID = 0)
               => ZeroResolved]_vars

\* C15 witness: with a span node and records in place, an event that named
\* an identifier no longer in the scope table has ended in the fatal path.
C15_Witness ==
  /\ fatal
  /\ scopes # << >>
  /\ log # << >>
  /\ emitted[nextID].Type \in {"MODIFY_ATTR", "ADD_EVENT", "SET_STATUS", "RECORD_STATS"}
  /\ emitted[nextID].Scope.EventID # 0
  /\ emitted[emitted[nextID].Scope.EventID].Type = "START_SPAN"
  /\ RecordsOf(nextID) = {}

\* ------------------------------------------- claims: non-structural events
\* the attribute snapshot of scope id as the event stream alone gives it
RECURSIVE SnapshotOf(_)
SnapshotOf(id) ==
  IF id = 0 \/ id \notin DOMAIN emitted THEN EmptyMap
  ELSE IF emitted[id].Type = "START_SPAN" THEN SnapshotOf(emitted[id].Scope.EventID)
       ELSE IF emitted[id].Type \in {"NEW_SCOPE", "MODIFY_ATTR"}
            THEN Apply(SnapshotOf(emitted[id].Scope.EventID), EventUpdate(emitted[id]))
            ELSE EmptyMap

\* the latest MODIFY_ATTR, ADD_EVENT or FINISH_SPAN record has the attributes
\* of its scope chain (and, for ADD_EVENT, its own extra attributes): nothing
\* an earlier ADD_EVENT carried shows in it
RecordFollowsChain ==
  log # << >>
  => LET rec == LastRecord
         e == emitted[rec.Sequence]
     IN  /\ rec.Type = "MODIFY_ATTR" => rec.Attributes = SnapshotOf(rec.Sequence)
         /\ rec.Type = "FINISH_SPAN" => rec.Attributes = SnapshotOf(e.Scope.EventID)
         /\ rec.Type = "ADD_EVENT"
            => rec.Attributes = ApplyKVs(SnapshotOf(e.Scope.EventID), e.Attributes)

\* C16: ADD_EVENT, RECORD_STATS and SET_STATUS leave the scope, measure and
\* metric tables and every node's snapshot as they were; the extra attributes
\* of an ADD_EVENT are in that event's record only; entries leave the scope
\* table only while a FINISH_SPAN is processed.
C16_Frame ==
  [][IsOneEventStep
     => /\ NewEvent.Type \in {"ADD_EVENT", "RECORD_STATS", "SET_STATUS"}
           => /\ scopes' = scopes
              /\ measures' = measures
              /\ metrics' = metrics
        /\ (DOMAIN scopes) \ (DOMAIN scopes') # {} => NewEvent.Type = "FINISH_SPAN"
        /\ RecordFollowsChain']_vars

\* C16 witness: an ADD_EVENT in a span's scope gave a record with its extra
\* attribute y = 9, and a later MODIFY_ATTR or FINISH_SPAN record of the same
\* span does not have it.
C16_Witness ==
  \E i \in DOMAIN log, j \in DOMAIN log :
    /\ i < j
    /\ log[i].rec.Type = "ADD_EVENT"
    /\ log[i].rec.SpanContext # EmptySC
    /\ "y" \in DOMAIN log[i].rec.Attributes
    /\ log[i].rec.Attributes["y"] = "9"
    /\ log[j].rec.Type \in {"MODIFY_ATTR", "FINISH_SPAN"}
    /\ log[j].rec.SpanContext = log[i].rec.SpanContext
    /\ emitted[log[j].rec.Sequence].Scope = emitted[log[i].rec.Sequence].Scope
    /\ "y" \notin DOMAIN log[j].rec.Attributes

\* ------------------------------------------------------- claims: the status
\* the status of the last of the first k events that is a SET_STATUS
\* processed for span s, and the zero status when there is none
RECURSIVE LastStatus(_, _)
LastStatus(s, k) ==
  IF k = 0 THEN CodeOK
  ELSE IF /\ emitted[k].Type = "SET_STATUS"
          /\ OwnerOf(emitted[k].Scope.EventID) = s
          /\ RecordsOf(k) # {}
       THEN emitted[k].Status
       ELSE LastStatus(s, k - 1)

StatusIsLast == \A s \in DOMAIN spans : spans[s].status = LastStatus(s, Len(emitted))

\* C17: a processed SET_STATUS whose scope resolves, directly or through
\* MODIFY_ATTR nodes, to a span sets that span's status and nothing else and
\* gives a record with the status and the span's context, so each span's
\* status is that of the last such event; a SET_STATUS whose scope has no
\* owning span changes no state and gives a record with the status and an
\* empty span context.
C17_Status ==
  [][(IsOneEventStep /\ NewEvent.Type = "SET_STATUS" /\ ~fatal')
     => LET s == OwnerOf(NewEvent.Scope.EventID)
        IN  /\ Len(log') = Len(log) + NumReaders
            /\ LastRecord'.Type = "SET_STATUS"
            /\ LastRecord'.Status = NewEvent.Status
            /\ scopes' = scopes
            /\ s # 0 => /\ spans' = [spans EXCEPT ![s].status = NewEvent.Status]
                        /\ LastRecord'.SpanContext = spans[s].spanContext
            /\ s = 0 => /\ spans' = spans
                        /\ LastRecord'.SpanContext = EmptySC
            /\ StatusIsLast']_vars

\* C17 witness: a span's status was set to 1 through the span's own scope and
\* then to 2 through one of its MODIFY_ATTR nodes; it is 2.
C17_Witness ==
  \E s \in DOMAIN spans, i \in DOMAIN emitted, j \in DOMAIN emitted :
    /\ i < j
    /\ emitted[i].Type = "SET_STATUS" /\ emitted[i].Status = 1
    /\ emitted[i].Scope.EventID = s
    /\ emitted[j].Type = "SET_STATUS" /\ emitted[j].Status = 2
    /\ emitted[j].Scope.EventID \notin {0, s}
    /\ emitted[emitted[j].Scope.EventID].Type = "MODIFY_ATTR"
    /\ OwnerOf(emitted[j].Scope.EventID) = s
    /\ RecordsOf(j) # {}
    /\ spans[s].status = 2

\* ------------------------------------------ claims: measures and metrics
\* every measure and metric an event registered is in its table, and every
\* metric's measure is in the measure table
RegistryComplete ==
  /\ \A i \in DOMAIN emitted :
       /\ emitted[i].Type = "NEW_MEASURE"
          => i \in DOMAIN measures /\ measures[i].name = emitted[i].String
       /\ (emitted[i].Type = "NEW_METRIC" /\ emitted[i].Scope.EventID \in DOMAIN measures)
          => /\ i \in DOMAIN metrics
             /\ metrics[i].readerMeasure = emitted[i].Scope.EventID
  /\ \A m \in DOMAIN metrics : metrics[m].readerMeasure \in DOMAIN measures

\* C18: NEW_MEASURE stores a measure under the event's identifier, NEW_METRIC
\* a metric that points to the measure its scope reference names; no step
\* (a FINISH_SPAN cleanup included) removes or changes a measure or a metric,
\* and every metric's measure is in the measure table.
C18_Registry ==
  [][IsOneEventStep
     => /\ \A id \in DOMAIN measures : id \in DOMAIN measures' /\ measures'[id] = measures[id]
        /\ \A id \in DOMAIN metrics : id \in DOMAIN metrics' /\ metrics'[id] = metrics[id]
        /\ NewEvent.Type = "NEW_MEASURE"
           => /\ DOMAIN measures' = DOMAIN measures \cup {NewEvent.Sequence}
              /\ metrics' = metrics
        /\ (NewEvent.Type = "NEW_METRIC" /\ ~fatal')
           => /\ DOMAIN metrics' = DOMAIN metrics \cup {NewEvent.Sequence}
              /\ measures' = measures
        /\ NewEvent.Type \notin {"NEW_MEASURE", "NEW_METRIC"}
           => measures' = measures /\ metrics' = metrics
        /\ RegistryComplete']_vars

\* C18 witness: a measure and a metric on it were registered, and a span was
\* started and finished; both are still in their tables.
C18_Witness ==
  /\ ~fatal
  /\ \E m \in DOMAIN metrics : metrics[m].readerMeasure \in DOMAIN measures
  /\ \E i \in DOMAIN emitted :
       /\ emitted[i].Type = "FINISH_SPAN"
       /\ emitted[i].Scope.EventID \notin DOMAIN scopes
       /\ RecordsOf(i) # {}

\* --------------------------------------------------- claims: owning spans
\* every stored node has the owning span its chain of scope references gives
OwnersFollowChain == \A id \in DOMAIN scopes : scopes[id].span = OwnerOf(id)

\* C19: each stored scope node chained directly or transitively off a span
\* node has that span as its owning span, each span node owns itself, each
\* node chained only off 0 or resource scopes has none; so every MODIFY_ATTR,
\* ADD_EVENT, SET_STATUS and RECORD_STATS record carries the span context of
\* the span that owns its scope (the empty one when there is none).
C19_Owner ==
  [][IsOneEventStep
     => /\ OwnersFollowChain'
        /\ (/\ NewEvent.Type \in {"MODIFY_ATTR", "ADD_EVENT", "SET_STATUS", "RECORD_STATS"}
            /\ ~fatal')
           => LET s == OwnerOf(NewEvent.Scope.EventID)
              IN  /\ LastRecord'.Sequence = NewEvent.Sequence
                  /\ LastRecord'.SpanContext =
                       IF s = 0 THEN EmptySC ELSE emitted[s].Scope.SpanContext]_vars

\* C19 witness: an ADD_EVENT, SET_STATUS or RECORD_STATS in the scope of a
\* MODIFY_ATTR node that hangs off another MODIFY_ATTR node of a span gave a
\* record with that span's context.
C19_Witness ==
  \E i \in DOMAIN log :
    LET e == emitted[log[i].rec.Sequence]
        n == e.Scope.EventID
    IN  /\ e.Type \in {"ADD_EVENT", "SET_STATUS", "RECORD_STATS"}
        /\ n \in DOMAIN scopes
        /\ emitted[n].Type = "MODIFY_ATTR"
        /\ scopes[n].parent \in DOMAIN scopes
        /\ emitted[scopes[n].parent].Type = "MODIFY_ATTR"
        /\ scopes[n].span # 0
        /\ log[i].rec.SpanContext = emitted[scopes[n].span].Scope.SpanContext
        /\ log[i].rec.SpanContext # EmptySC

\* ------------------------------------------------ claims: what Finish leaves
\* the nodes the operations on span h have stored: the NEW_SCOPE node of its
\* Start (the event before its START_SPAN), the span node and the nodes
\* chained off it
SpanEntries(h) ==
  {h - 1} \cup {id \in DOMAIN emitted :
                  /\ emitted[id].Type \in NodeTypes
                  /\ OwnerOf(id) = h}

\* C20: a stored span node has parent 0; when a span started by tracer.Start
\* has been finished, of the entries its operations stored only the NEW_SCOPE
\* node of its Start is left, so the scope table holds exactly one entry more
\* than before that Start.
C20_Residual ==
  [][\A h \in DOMAIN handles :
       (~handles[h].finished /\ handles'[h].finished /\ ~fatal')
       => /\ scopes[h].parent = 0
          /\ SpanEntries(h) \cap DOMAIN scopes' = {h - 1}
          /\ \A id \in DOMAIN scopes \ SpanEntries(h) : id \in DOMAIN scopes']_vars


====
